---- MODULE Spec2Model ----
(***************************************************************************)
(* Sticky notes for the desktop shell: the NotesManager that owns the list *)
(* of live notes and the NoteBox objects that persist themselves to the    *)
(* per-id records <id>_state and <id>_text of the notes data directory.    *)
(* Every handler of the single-threaded event loop is one atomic action.   *)
(***************************************************************************)
EXTENDS Integers, Sequences, FiniteSets, TLC

\* ------------------------------------------------------------------ bounds
\* Most notes the manager's list holds in the model (createNote is capped).
MaxNotes == 3
\* Positions are kept in units of 1/SubPx pixel, so a position may be fractional.
SubPx == 2
\* The primary monitor, in pixels.
MonitorWidth == 800
MonitorHeight == 600
\* Most detach timers pending at once.
MaxTimers == 2
\* The largest font size and the largest width and height the model lets the
\* user reach.
MaxFontSize == 16
MaxWidth == 300
MaxHeight == 285
\* Most constructors that throw in a behavior.
MaxFailures == 2
\* Most notes out of the list and not destroyed at a time.
MaxStray == 1

\* --------------------------------------------------------- program constants
MIN_HEIGHT == 75
MIN_WIDTH == 200
DefaultWidth == 250
DefaultHeight == 180
DefaultFontSize == 12
LoadFontSize == 16
\* Math.random() * (monitor.width - 300), Math.random() * (monitor.height - 100)
RandomMarginX == 300
RandomMarginY == 100
\* The samples _computeRandomPosition draws at most, and the distances below
\* which areCoordsUsable finds a note too near.
MaxTries == 15
TooNearX == 230
TooNearY == 100

\* -------------------------------------------------------------- arithmetic
\* A faulty Math.max whose comparison is the wrong way round.
MaxWrongWay(a, b) == IF a >= b THEN b ELSE a

\* Math.max and Math.min
Max(a, b) == IF a >= b THEN a ELSE b
Min(a, b) == IF a <= b THEN a ELSE b
\* A whole number of pixels in position units.
Px(p) == p * SubPx
\* Math.floor of a position.
Floor(v) == (v \div SubPx) * SubPx

\* ------------------------------------------------------ JavaScript values
\* A value a numeric expression of the program can hold: a number, NaN, or
\* undefined (an array element that is not there).
Num(v) == [t |-> "num", v |-> v]
NaN == [t |-> "NaN", v |-> 0]
Undefined == [t |-> "undefined", v |-> 0]
\* `Number(j) || dflt`: the default replaces NaN and 0.
NumberOr(j, dflt) == IF j.t = "num" /\ j.v # 0 THEN j.v ELSE dflt
\* isNaN(Number(j))
IsNaN(j) == j.t # "num"

\* A color string "r,g,b" is the sequence of its comma-separated tokens, each a
\* number or NaN (a token Number() does not parse); <<>> is the empty string.
ColorString(r, g, b) == <<Num(r), Num(g), Num(b)>>
\* colorString || '245,176,65'
DefaultColor == ColorString(245, 176, 65)
\* customColor.split(',').map(Number), destructured into [r, g, b].
ColorToken(s, i) == IF i <= Len(s) THEN s[i] ELSE Undefined
SplitColor(s) == <<ColorToken(s, 1), ColorToken(s, 2), ColorToken(s, 3)>>

\* ------------------------------------------------------------------ inputs
\* The note bodies a user types.
Texts == {"", "a"}
\* The colors of the options menu the model offers.
MenuColors == {<<90, 90, 255>>}
\* Values of a color component a caller may pass: below and above the range,
\* and the two around a third of the text color's threshold.
ColorLevels == {-20, 83, 84, 300}
\* The triples (r, g, b) applied as a note color.
ColorInputs == ColorLevels \X ColorLevels \X ColorLevels
\* The steps of the font size menu.
FontDeltas == {-2, 2}
\* Pointer moves of a drag, in pixels: to the far corners of the monitor.
MoveDeltas == {<<0 - MonitorWidth, 0 - MonitorHeight>>, <<MonitorWidth, MonitorHeight>>}
\* Pointer moves of a resize drag, in pixels.
ResizeDeltas == {<<50, -105>>, <<-50, 105>>}
\* Outcomes of Math.random() the model draws from: a fractional position, and
\* one near the bottom edge of the sampled area.
PositionPool == {<<Px(10) + 1, Px(20) + 1>>, <<Px(100), Px(MonitorHeight - 150)>>}
\* Every value _computeRandomPosition can return: x in [0, width - 300) and
\* y in [0, height - 100). The first usable sample is returned, or the 15th
\* sample whatever it is, so each sampled point is a possible result whether
\* or not areCoordsUsable accepts it.
RandomPositions ==
    {p \in PositionPool : /\ 0 <= p[1] /\ p[1] < Px(MonitorWidth - RandomMarginX)
                          /\ 0 <= p[2] /\ p[2] < Px(MonitorHeight - RandomMarginY)}

\* A state record that throws when it is read or parsed (load_contents or
\* JSON.parse throws, or the parsed value has no fields to read).
Unparsable == [malformed |-> "throws"]
\* A state record for which load_contents returns without success.
ReadFails == [malformed |-> "no success"]
\* A state record is one the program parses.
IsRecord(d) == "malformed" \notin DOMAIN d

\* A state record somebody else left, with the position and the size given,
\* and a color that is not the default.
ForeignRecord(pos, size) ==
    [x |-> pos[1], y |-> pos[2], color |-> ColorString(90, 90, 255), width |-> size[1],
     height |-> size[2], fontSize |-> Num(LoadFontSize), entryVisible |-> TRUE,
     isBold |-> FALSE]
\* Sizes of such records: zero, below the minimum, negative, not a number,
\* and a usual one.
ForeignSizes ==
    {<<Num(0), Num(0)>>, <<Num(50), Num(10)>>, <<Num(-50), Num(-10)>>, <<NaN, NaN>>,
     <<Num(260), Num(190)>>}
\* Positions of such records: not a number, far outside the monitor, inside.
ForeignPositions ==
    {<<NaN, Num(0)>>, <<Num(Px(5 * MonitorWidth)), Num(0 - Px(30))>>,
     <<Num(Px(40)), Num(Px(40))>>}
\* The state records the program may find for an id when it starts.
ForeignRecords ==
    {Unparsable, ReadFails}
        \cup {ForeignRecord(pos, size) : pos \in ForeignPositions, size \in ForeignSizes}

\* ------------------------------------------------------------------ NoteBox
\* The record _saveState serialises.
StateData(n) ==
    [x |-> Num(Floor(n.x)), y |-> Num(Floor(n.y)), color |-> n.customColor,
     width |-> Num(n.width), height |-> Num(n.height), fontSize |-> Num(n.fontSize),
     entryVisible |-> n.entry_is_visible, isBold |-> n.isBold]

\* _saveState: replaces the record <id>_state (sf maps the ids that have one).
SaveState(n, sf) == (n.id :> StateData(n)) @@ sf

\* _saveText: replaces the record <id>_text.
SaveText(n, tf) == (n.id :> n.text) @@ tf

\* onlySave(withMetadata)
OnlySave(n, withMetadata, sf, tf) ==
    [sf |-> IF withMetadata THEN SaveState(n, sf) ELSE sf, tf |-> SaveText(n, tf)]

\* _setNotePosition: floors the size to the minimum and clamps the position to
\* the monitor.
SetNotePosition(n) ==
    LET w == Max(IF n.width = 0 THEN DefaultWidth ELSE n.width, MIN_WIDTH)
        h == Max(IF n.height = 0 THEN DefaultHeight ELSE n.height, MIN_HEIGHT)
    IN [n EXCEPT !.width = w, !.height = h,
                 !.x = Max(0, Min(n.x, Px(MonitorWidth - w))),
                 !.y = Max(0, Min(n.y, Px(MonitorHeight - h)))]

\* A faulty _applyColor component that is stored as given.
ColorComponentUnclamped(j) == IF j.t = "NaN" THEN Num(255) ELSE j

\* One component of _applyColor: NaN becomes 255, then Math.min(Math.max(0, c), 255);
\* undefined is not NaN for Number.isNaN and Math.max(0, undefined) is NaN.
ColorComponent(j) ==
    IF j.t = "NaN" THEN Num(255)
    ELSE IF j.t = "undefined" THEN NaN
    ELSE Num(Min(Max(0, j.v), 255))

\* r + g + b > 250 (false when a component is NaN)
IsLight(c) ==
    /\ \A i \in 1..3 : c[i].t = "num"
    /\ c[1].v + c[2].v + c[3].v > 250

\* The text color _applyColor derives from the stored color.
FontColorFor(c) == IF IsLight(c) THEN "#000000" ELSE "#ffffff"

\* The assignments of _applyColor(r, g, b): the clamped color and its text color.
Colored(n, c) == [n EXCEPT !.customColor = c, !.fontColor = FontColorFor(c)]

\* A note under construction or in a handler, with the records as they stand:
\* k.n is the note, k.sf the state records, k.tf the text records.
Saved(k, n) == [k EXCEPT !.n = n, !.sf = SaveState(n, k.sf)]

\* _applyColor(r, g, b): stores the clamped color, derives the text color and
\* saves the state.
ApplyColor(k, rgb) ==
    Saved(k, Colored(k.n, <<ColorComponent(rgb[1]), ColorComponent(rgb[2]),
                            ColorComponent(rgb[3])>>))

\* _initStyle
InitStyle(k) == ApplyColor(k, SplitColor(k.n.customColor))

\* _createDefaultState: writes a default record at a freshly sampled position.
CreateDefaultState(n, r, sf) ==
    (n.id :> [x |-> Num(r[1]), y |-> Num(r[2]), color |-> n.customColor,
              width |-> Num(DefaultWidth), height |-> Num(DefaultHeight),
              fontSize |-> Num(n.fontSize), entryVisible |-> TRUE, isBold |-> FALSE]) @@ sf

\* The position _loadState takes from a parsed record: a sampled one when x or
\* y is not a number.
LoadedPosition(d, r) == IF IsNaN(d.x) \/ IsNaN(d.y) THEN r ELSE <<d.x.v, d.y.v>>

\* A faulty _loadState that reads the height from the width field.
ApplyStateDataHeightFromWidth(n, d, r) ==
    [n EXCEPT !.customColor = IF d.color # <<>> THEN d.color ELSE @,
              !.width = Max(NumberOr(d.width, DefaultWidth), MIN_WIDTH),
              !.height = Max(NumberOr(d.width, DefaultHeight), MIN_HEIGHT),
              !.fontSize = NumberOr(d.fontSize, DefaultFontSize),
              !.x = LoadedPosition(d, r)[1],
              !.y = LoadedPosition(d, r)[2],
              !.entry_is_visible = (d.entryVisible # FALSE),
              !.isBold = d.isBold]

\* _loadState with the record present and parsed.
ApplyStateData(n, d, r) ==
    [n EXCEPT !.customColor = IF d.color # <<>> THEN d.color ELSE @,
              !.width = Max(NumberOr(d.width, DefaultWidth), MIN_WIDTH),
              !.height = Max(NumberOr(d.height, DefaultHeight), MIN_HEIGHT),
              !.fontSize = NumberOr(d.fontSize, DefaultFontSize),
              !.x = LoadedPosition(d, r)[1],
              !.y = LoadedPosition(d, r)[2],
              !.entry_is_visible = (d.entryVisible # FALSE),
              !.isBold = d.isBold]

\* The catch block of _loadState: a sampled position, the default size, the
\* content visible and not bold; color and font size stay as constructed.
ApplyErrorDefaults(n, r) ==
    [n EXCEPT !.x = r[1], !.y = r[2], !.width = DefaultWidth, !.height = DefaultHeight,
              !.entry_is_visible = TRUE, !.isBold = FALSE]

\* A faulty _loadState whose catch block does not style the note, and so
\* never saves it.
LoadStateKeepsRecord(k, r) ==
    IF k.n.id \notin DOMAIN k.sf \/ k.sf[k.n.id] = ReadFails
    THEN InitStyle([k EXCEPT !.sf = CreateDefaultState(k.n, r, k.sf)])
    ELSE IF k.sf[k.n.id] = Unparsable
    THEN [k EXCEPT !.n = SetNotePosition(ApplyErrorDefaults(k.n, r))]
    ELSE InitStyle([k EXCEPT !.n = SetNotePosition(ApplyStateData(k.n, k.sf[k.n.id], r))])

\* _loadState: r is the position sampled on the paths that sample one. There
\* is no record, or load_contents reports no success: a default record is
\* written. Reading or parsing throws: the catch block sets the defaults.
\* Otherwise the parsed record is applied.
LoadState(k, r) ==
    IF k.n.id \notin DOMAIN k.sf \/ k.sf[k.n.id] = ReadFails
    THEN InitStyle([k EXCEPT !.sf = CreateDefaultState(k.n, r, k.sf)])
    ELSE IF k.sf[k.n.id] = Unparsable
    THEN InitStyle([k EXCEPT !.n = SetNotePosition(ApplyErrorDefaults(k.n, r))])
    ELSE InitStyle([k EXCEPT !.n = SetNotePosition(ApplyStateData(k.n, k.sf[k.n.id], r))])

\* _loadText: creates an empty record when there is none, then reads it.
LoadText(k) ==
    IF k.n.id \in DOMAIN k.tf
    THEN [k EXCEPT !.n.text = k.tf[k.n.id]]
    ELSE [k EXCEPT !.n.text = "", !.tf = (k.n.id :> "") @@ k.tf]

\* loadIntoCorrectLayer: valid size, clamped position, attached to the layer.
LoadIntoCorrectLayer(n) ==
    [SetNotePosition(SetNotePosition(
        [n EXCEPT !.width = Max(IF @ = 0 THEN DefaultWidth ELSE @, MIN_WIDTH),
                  !.height = Max(IF @ = 0 THEN DefaultHeight ELSE @, MIN_HEIGHT)]))
     EXCEPT !.attached = TRUE]

\* removeFromCorrectLayer
RemoveFromCorrectLayer(n) == [n EXCEPT !.attached = FALSE]

\* A faulty constructor that starts every note at the default font size.
NewNoteFieldsDefaultFont(id, colorString, fontSize, r1) ==
    [id |-> id,
     fontSize |-> DefaultFontSize,
     isBold |-> FALSE,
     customColor |-> IF colorString = <<>> THEN DefaultColor ELSE colorString,
     fontColor |-> "",
     entry_is_visible |-> TRUE,
     width |-> DefaultWidth, height |-> DefaultHeight,
     x |-> r1[1], y |-> r1[2],
     entryBoxVisible |-> TRUE,
     text |-> "",
     shown |-> TRUE, attached |-> FALSE,
     isMoving |-> FALSE, isResizing |-> FALSE]

\* The fields the constructor sets before it loads anything; r1 is the
\* position it samples.
NewNoteFields(id, colorString, fontSize, r1) ==
    [id |-> id,
     fontSize |-> IF fontSize = 0 THEN DefaultFontSize ELSE fontSize,
     isBold |-> FALSE,
     customColor |-> IF colorString = <<>> THEN DefaultColor ELSE colorString,
     fontColor |-> "",
     entry_is_visible |-> TRUE,
     width |-> DefaultWidth, height |-> DefaultHeight,
     x |-> r1[1], y |-> r1[2],
     entryBoxVisible |-> TRUE,
     text |-> "",
     shown |-> TRUE, attached |-> FALSE,
     isMoving |-> FALSE, isResizing |-> FALSE]

\* new NoteBox(id, colorString, fontSize, ...): the new note k.n and the
\* records as its construction leaves them; r1 and r2 are the positions the
\* constructor and _loadState sample.
NoteBox(id, colorString, fontSize, r1, r2, sf, tf) ==
    [LoadText(LoadState([n |-> NewNoteFields(id, colorString, fontSize, r1),
                         sf |-> sf, tf |-> tf], r2))
     EXCEPT !.n = LoadIntoCorrectLayer(@)]

\* onlySave(): the state and the text of the handler's note are saved.
SavedAll(k, n) == [n |-> n, sf |-> SaveState(n, k.sf), tf |-> SaveText(n, k.tf)]

\* _redraw: raises the note and saves it.
Redraw(k) == SavedAll(k, k.n)

\* toggleBold
ToggleBoldOf(k) == Saved(k, [k.n EXCEPT !.isBold = ~@])

\* A faulty changeFontSize that applies every delta.
ChangeFontSizeOfNoFloor(k, delta) ==
    SavedAll(k, [k.n EXCEPT !.fontSize = @ + delta])

\* changeFontSize(delta)
ChangeFontSizeOf(k, delta) ==
    SavedAll(k, IF k.n.fontSize + delta > 1 THEN [k.n EXCEPT !.fontSize = @ + delta] ELSE k.n)

\* applyColorAndSave(r, g, b)
ApplyColorAndSaveOf(k, rgb) ==
    Redraw(ApplyColor(k, <<Num(rgb[1]), Num(rgb[2]), Num(rgb[3])>>))

\* The right button on the title toggles the content pane (_onMovePress).
ToggleEntry(n, button) ==
    IF button = 3
    THEN [n EXCEPT !.entryBoxVisible = ~n.entryBoxVisible,
                   !.entry_is_visible = ~n.entryBoxVisible]
    ELSE n

\* The drag flags a press sets after _onPressCommon.
Dragging(k, moving) == [k EXCEPT !.n.isMoving = moving, !.n.isResizing = ~moving]

\* _onMovePress
OnMovePress(k, button) == Dragging(Redraw([k EXCEPT !.n = ToggleEntry(@, button)]), TRUE)

\* _onResizePress
OnResizePress(k) == Dragging(Redraw(k), FALSE)

\* _moveTo, d the pointer's move since the last event, in pixels
MoveTo(n, d) ==
    SetNotePosition([n EXCEPT !.x = Floor(n.x + Px(d[1])), !.y = Floor(n.y + Px(d[2]))])

\* Math.abs
Abs(v) == IF v < 0 THEN 0 - v ELSE v

\* _resizeTo, d the pointer's move since the last event, in pixels
ResizeTo(n, d) ==
    SetNotePosition([n EXCEPT !.width = Max(Abs(n.width + d[1]), MIN_WIDTH),
                              !.height = Max(Abs(n.height - d[2]), MIN_HEIGHT),
                              !.y = n.y + Px(d[2])])

\* _onRelease
OnRelease(k) == Redraw([k EXCEPT !.n.isMoving = FALSE, !.n.isResizing = FALSE])

\* -------------------------------------------------------------------- state
VARIABLES
    managerUp,        \* the extension is enabled: a NotesManager exists
    allNotes,         \* NotesManager._allNotes, the live notes in list order
    notesAreVisible,  \* NotesManager._notesAreVisible
    notesLoaded,      \* NotesManager._notesLoaded
    timeout_id,       \* NotesManager._timeout_id (0 is null)
    pendingTimers,    \* the detach timers of this manager that have not fired
    orphanTimers,     \* pending detach timers of managers already destroyed
    stateFiles,       \* the <id>_state records of the data directory, by id
    textFiles,        \* the <id>_text records of the data directory, by id
    notifications,    \* the error notifications Main.notify has shown
    strayNotes,       \* notes taken out of _allNotes whose actors were not destroyed
    search,           \* a run of _computeRandomPosition: the samples drawn so far
    lastLive,         \* <<bodies of the notes live at the last disable>>, else <<>>
    lastOp            \* the handler that ran last and the note it was about

vars == <<managerUp, allNotes, notesAreVisible, notesLoaded, timeout_id,
          pendingTimers, orphanTimers, stateFiles, textFiles, notifications,
          strayNotes, search, lastLive, lastOp>>

managerVars == <<managerUp, notesAreVisible, notesLoaded>>
timerVars == <<timeout_id, pendingTimers, orphanTimers>>
\* What the lifecycle and the handlers of listed notes leave alone.
auxVars == <<strayNotes, search>>

Op(name, idx, id, fresh) == [op |-> name, idx |-> idx, id |-> id, fresh |-> fresh]

\* The empty function: a data directory without records.
NoRecords == [i \in {} |-> 0]
\* f without the record of id.
Without(f, id) == [i \in DOMAIN f \ {id} |-> f[i]]

\* ------------------------------------------------------------- NotesManager
\* The manager's list with the records: w.notes, w.sf, w.tf.
\* _allNotes.push(note), with the records the note's construction left.
Pushed(notes, k) == [notes |-> Append(notes, k.n), sf |-> k.sf, tf |-> k.tf]

\* A faulty createNote that counts the ids from 1.
CreateNoteFromOne(w, colorString, fontSize, rs) ==
    Pushed(w.notes,
           NoteBox(Len(w.notes) + 1, colorString, fontSize, rs[1], rs[2], w.sf, w.tf))

\* createNote(colorString, fontSize): the next id is the list length.
CreateNote(w, colorString, fontSize, rs) ==
    Pushed(w.notes, NoteBox(Len(w.notes), colorString, fontSize, rs[1], rs[2], w.sf, w.tf))

\* Where the NoteBox constructor can throw: while it builds the note (nothing
\* is written yet), in _loadText (the state record is written), or in
\* loadIntoCorrectLayer (both records are written).
FailurePoints == {"build", "loadText", "layer"}

\* The records as the constructor of the note k left them when it threw.
RecordsAtFailure(w, k, point) ==
    [notes |-> w.notes,
     sf |-> IF point = "build" THEN w.sf ELSE k.sf,
     tf |-> IF point = "layer" THEN k.tf ELSE w.tf]

\* A faulty createNote that pushes the note before its constructor has
\* finished, so that a failed note stays in the list.
CreateNoteFailsPushed(w, colorString, fontSize, rs, point) ==
    Pushed(w.notes, NoteBox(Len(w.notes), colorString, fontSize, rs[1], rs[2], w.sf, w.tf))

\* createNote(colorString, fontSize) when the constructor throws at point:
\* the note is not pushed; the catch block notifies and throws again.
CreateNoteFails(w, colorString, fontSize, rs, point) ==
    RecordsAtFailure(w, NoteBox(Len(w.notes), colorString, fontSize, rs[1], rs[2],
                                w.sf, w.tf), point)

\* A faulty scan that goes on past the first missing state record.
LoadAllStepPastGap(p, i, rnd) ==
    IF i \in DOMAIN p.w.sf
    THEN [p EXCEPT !.w = CreateNote(p.w, <<>>, LoadFontSize, rnd[Len(p.w.notes) + 1]),
                   !.found = TRUE]
    ELSE [p EXCEPT !.ended = TRUE]

\* One turn of the while loop of _loadAllNotes at id i: a note is created when
\* id i has a state record, otherwise the scan has ended.
LoadAllStep(p, i, rnd) ==
    IF ~p.ended /\ i \in DOMAIN p.w.sf
    THEN [p EXCEPT !.w = CreateNote(p.w, <<>>, LoadFontSize, rnd[Len(p.w.notes) + 1]),
                   !.found = TRUE]
    ELSE [p EXCEPT !.ended = TRUE]

\* The default note _loadAllNotes creates when the scan found no record.
LoadAllDefault(p, rnd) ==
    IF p.found THEN p.w ELSE CreateNote(p.w, <<>>, LoadFontSize, rnd[1])

\* _loadAllNotes: the scan from id 0, then the default note.
LoadAllNotes(w, rnd) ==
    LET scan[i \in 0..MaxNotes] ==
            IF i = 0 THEN [w |-> w, found |-> FALSE, ended |-> FALSE]
            ELSE LoadAllStep(scan[i - 1], i - 1, rnd)
    IN LoadAllDefault(scan[MaxNotes], rnd)

\* _loadAllNotes up to its creation number f, counted from 1: the scan as far
\* as the f - 1 notes before it.
LoadAllBefore(w, rnd, f) ==
    LET scan[i \in 0..MaxNotes] ==
            IF i = 0 THEN [w |-> w, found |-> FALSE, ended |-> FALSE]
            ELSE LoadAllStep(scan[i - 1], i - 1, rnd)
    IN scan[f - 1]

\* After the scan p, _loadAllNotes goes on to creation number f: the scan
\* finds the state record of id f - 1, or f is the default note.
LoadAllCreates(p, f) ==
    /\ ~p.ended
    /\ (f - 1) \in DOMAIN p.w.sf \/ (f = 1 /\ ~p.found)

\* _showNotes, per note: show()
ShowNotes(notes) == [i \in 1..Len(notes) |-> [notes[i] EXCEPT !.shown = TRUE]]
\* A faulty _hideNotes that leaves the first note of the list shown.
HideNotesButFirst(notes) ==
    [i \in 1..Len(notes) |-> [notes[i] EXCEPT !.shown = (i = 1)]]

\* _hideNotes, per note: hide()
HideNotes(notes) == [i \in 1..Len(notes) |-> [notes[i] EXCEPT !.shown = FALSE]]
\* A callback that leaves alone the notes shown again since the hide.
DetachHidden(notes) ==
    [i \in 1..Len(notes) |->
        IF notes[i].shown THEN notes[i] ELSE RemoveFromCorrectLayer(notes[i])]

\* The detach timer's callback, and the relayering of _onButtonPressed.
DetachAll(notes) == [i \in 1..Len(notes) |-> RemoveFromCorrectLayer(notes[i])]
RelayerAll(notes) ==
    [i \in 1..Len(notes) |-> LoadIntoCorrectLayer(RemoveFromCorrectLayer(notes[i]))]

\* A faulty removal that leaves the records on disk.
DeleteNoteFilesKeeps(f, id) == f

\* _deleteNoteFiles(id), and the same removal in _deleteNoteObject
DeleteNoteFiles(f, id) == Without(f, id)

\* postDelete(deletedNoteId) on the list and records w: the records of the id
\* are removed; when the id is below the list length the last note is popped,
\* and when the id is still below the length it is given the id, stored at
\* index id over the note that is there, saved, and the records of the id
\* equal to the new length are removed. gone holds the notes that are in the
\* list before the call and not after it.
PostDelete(w, deletedNoteId) ==
    LET N == Len(w.notes)
        sf1 == DeleteNoteFiles(w.sf, deletedNoteId)
        tf1 == DeleteNoteFiles(w.tf, deletedNoteId)
        moved == [w.notes[N] EXCEPT !.id = deletedNoteId]
    IN IF deletedNoteId >= N
       THEN [notes |-> w.notes, sf |-> sf1, tf |-> tf1, gone |-> {}]
       ELSE IF deletedNoteId < N - 1
       THEN [notes |-> [SubSeq(w.notes, 1, N - 1) EXCEPT ![deletedNoteId + 1] = moved],
             sf |-> DeleteNoteFiles(SaveState(moved, sf1), N - 1),
             tf |-> DeleteNoteFiles(SaveText(moved, tf1), N - 1),
             gone |-> {w.notes[deletedNoteId + 1]}]
       ELSE [notes |-> SubSeq(w.notes, 1, N - 1), sf |-> sf1, tf |-> tf1,
             gone |-> {w.notes[N]}]

\* A faulty splice that always removes the first note of the list.
SpliceFirst(notes, index) ==
    [i \in 1..(Len(notes) - 1) |-> notes[i + 1]]

\* _allNotes.splice(index, 1), index counted from 1
Splice(notes, index) ==
    [i \in 1..(Len(notes) - 1) |-> IF i < index THEN notes[i] ELSE notes[i + 1]]

\* The final save of destroy(): onlySave(false) of every note, in list order.
SaveAllText(notes, sf, tf) ==
    LET saved[i \in 0..Len(notes)] ==
            IF i = 0 THEN tf ELSE OnlySave(notes[i], FALSE, sf, saved[i - 1]).tf
    IN saved[Len(notes)]

\* What can fail for a note in the loop of destroy(): the write of _saveText
\* (caught and logged in _saveText) or note.destroy() (caught in the loop).
TeardownFailures == {"save", "destroy"}

\* A faulty destroy() whose loop ends at the note that fails.
TeardownStops(notes, sf, tf, j, kind) ==
    LET saved[i \in 0..Len(notes)] ==
            IF i = 0 THEN tf
            ELSE IF i > j \/ (i = j /\ kind = "save") THEN saved[i - 1]
            ELSE OnlySave(notes[i], FALSE, sf, saved[i - 1]).tf
    IN saved[Len(notes)]

\* The final saves of destroy() when note j fails: every note's text is
\* written in list order, except that of note j when its write fails.
TeardownSaves(notes, sf, tf, j, kind) ==
    LET saved[i \in 0..Len(notes)] ==
            IF i = 0 THEN tf
            ELSE IF i = j /\ kind = "save" THEN saved[i - 1]
            ELSE OnlySave(notes[i], FALSE, sf, saved[i - 1]).tf
    IN saved[Len(notes)]

\* The id GLib.timeout_add gives a new timer: one no pending timer has.
FreeTimer(pending) == CHOOSE t \in 1..(MaxTimers + 1) : t \notin pending

\* A position sample for each of the two places the constructor may sample.
Samples == RandomPositions \X RandomPositions

\* The user can reach a note's buttons and entry.
Reachable(n) == n.shown /\ n.attached

\* A faulty areCoordsUsable that looks at the horizontal distance alone.
AreCoordsUsableByX(notes, x, y) ==
    ~\E i \in 1..Len(notes) : Abs(notes[i].x - x) < Px(TooNearX)

\* areCoordsUsable(x, y): no note of the list is nearer than 230 across and
\* nearer than 100 down.
AreCoordsUsable(notes, x, y) ==
    ~\E i \in 1..Len(notes) :
        Abs(notes[i].x - x) < Px(TooNearX) /\ Abs(notes[i].y - y) < Px(TooNearY)

\* A run of _computeRandomPosition: the number of samples drawn, the samples
\* that were turned down, the last sample, and what the run returned (<<>>
\* while it runs).
NoSearch == [tries |-> 0, rejected |-> {}, last |-> <<>>, result |-> <<>>]

\* One turn of the loop of _computeRandomPosition with the sample p: p is
\* returned when it is usable; after the turn that draws the last sample the
\* loop ends and that sample is returned.
SearchStep(q, notes, p) ==
    IF AreCoordsUsable(notes, p[1], p[2])
    THEN [tries |-> q.tries + 1, rejected |-> q.rejected, last |-> p, result |-> p]
    ELSE [tries |-> q.tries + 1, rejected |-> q.rejected \cup {p}, last |-> p,
          result |-> IF q.tries + 1 = MaxTries THEN p ELSE <<>>]

\* ------------------------------------------------------------------ actions
Init ==
    /\ managerUp = FALSE
    /\ allNotes = <<>>
    /\ notesAreVisible = FALSE
    /\ notesLoaded = FALSE
    /\ timeout_id = 0
    /\ pendingTimers = {}
    /\ orphanTimers = 0
    /\ stateFiles = NoRecords
    /\ textFiles = NoRecords
    /\ notifications = 0
    /\ strayNotes = {}
    /\ search = NoSearch
    /\ lastLive = <<>>
    /\ lastOp = Op("init", 0, 0, FALSE)

\* NotesExtension.enable(): new NotesManager, which loads and shows the notes.
\* The load constructs one note for the default, or at most one for each
\* state record: rnd holds the samples of that many constructors.
Enable ==
    /\ ~managerUp
    /\ \E rnd \in [1..Max(1, Cardinality(DOMAIN stateFiles)) -> Samples] :
          \E la \in {LoadAllNotes([notes |-> <<>>, sf |-> stateFiles, tf |-> textFiles], rnd)} :
             /\ allNotes' = ShowNotes(la.notes)
             /\ stateFiles' = la.sf
             /\ textFiles' = la.tf
             /\ lastOp' = Op("enable", Len(la.notes), 0, 0 \notin DOMAIN stateFiles)
    /\ managerUp' = TRUE
    /\ notesAreVisible' = TRUE
    /\ notesLoaded' = TRUE
    /\ timeout_id' = 0
    /\ pendingTimers' = {}
    /\ lastLive' = <<>>
    /\ UNCHANGED auxVars
    /\ UNCHANGED <<orphanTimers, notifications>>

\* NotesExtension.disable(): NotesManager.destroy() saves every note's text,
\* destroys the notes and removes the timer _timeout_id names. The extension
\* holds the manager only when its constructor returned, that is, when the
\* load completed.
Disable ==
    /\ managerUp
    /\ notesLoaded
    /\ orphanTimers + Cardinality(pendingTimers \ {timeout_id}) <= MaxTimers
    /\ textFiles' = SaveAllText(allNotes, stateFiles, textFiles)
    /\ lastLive' = <<[i \in 1..Len(allNotes) |-> allNotes[i].text]>>
    /\ allNotes' = <<>>
    /\ managerUp' = FALSE
    /\ notesAreVisible' = FALSE
    /\ notesLoaded' = FALSE
    /\ timeout_id' = 0
    /\ pendingTimers' = {}
    /\ orphanTimers' = orphanTimers + Cardinality(pendingTimers \ {timeout_id})
    /\ lastOp' = Op("disable", 0, 0, FALSE)
    /\ UNCHANGED auxVars
    /\ UNCHANGED <<stateFiles, notifications>>

\* NotesExtension.disable() when the final save or the destroy of note j
\* fails: the failure is caught and logged, and the loop goes on.
DisableFails(j, kind) ==
    /\ managerUp
    /\ notesLoaded
    /\ j \in 1..Len(allNotes)
    /\ orphanTimers + Cardinality(pendingTimers \ {timeout_id}) <= MaxTimers
    /\ textFiles' = TeardownSaves(allNotes, stateFiles, textFiles, j, kind)
    /\ lastLive' = <<[i \in 1..Len(allNotes) |-> allNotes[i].text]>>
    /\ allNotes' = <<>>
    /\ managerUp' = FALSE
    /\ notesAreVisible' = FALSE
    /\ notesLoaded' = FALSE
    /\ timeout_id' = 0
    /\ pendingTimers' = {}
    /\ orphanTimers' = orphanTimers + Cardinality(pendingTimers \ {timeout_id})
    /\ lastOp' = Op("disableFailed", j, allNotes[j].id, FALSE)
    /\ UNCHANGED auxVars
    /\ UNCHANGED <<stateFiles, notifications>>

\* The New button of note i: _createNote -> createNote(customColor, _fontSize).
NewNote(i) ==
    /\ managerUp
    /\ i \in 1..Len(allNotes)
    /\ Reachable(allNotes[i])
    /\ Len(allNotes) < MaxNotes
    /\ \E rs \in Samples :
          \E c \in {CreateNote([notes |-> allNotes, sf |-> stateFiles, tf |-> textFiles],
                                 allNotes[i].customColor, allNotes[i].fontSize, rs)} :
             /\ allNotes' = c.notes
             /\ stateFiles' = c.sf
             /\ textFiles' = c.tf
             /\ lastOp' = Op("create", Len(c.notes), Len(allNotes),
                             Len(allNotes) \notin DOMAIN stateFiles)
    /\ UNCHANGED auxVars
    /\ UNCHANGED <<managerVars, notifications, timerVars, lastLive>>

\* The New button of note i when the constructor of the new note throws:
\* createNote notifies and throws again, and the handler ends there.
NewNoteFails(i) ==
    /\ managerUp
    /\ i \in 1..Len(allNotes)
    /\ Reachable(allNotes[i])
    /\ Len(allNotes) < MaxNotes
    /\ notifications < MaxFailures
    /\ \E rs \in Samples, point \in FailurePoints :
          \E c \in {CreateNoteFails([notes |-> allNotes, sf |-> stateFiles, tf |-> textFiles],
                                     allNotes[i].customColor, allNotes[i].fontSize, rs, point)} :
             /\ allNotes' = c.notes
             /\ stateFiles' = c.sf
             /\ textFiles' = c.tf
    /\ notifications' = notifications + 1
    /\ lastOp' = Op("createFailed", i, Len(allNotes), Len(allNotes) \notin DOMAIN stateFiles)
    /\ UNCHANGED auxVars
    /\ UNCHANGED <<managerVars, timerVars, lastLive>>

\* NotesExtension.enable() when a constructor throws during the load: the
\* error leaves createNote, _loadAllNotes and the manager's constructor, so
\* the load is not completed, _showNotes is not reached and the extension
\* holds no manager; the manager lives on with its panel button and the notes
\* created before the failure.
EnableFails ==
    /\ ~managerUp
    /\ notifications < MaxFailures
    /\ \E f \in 1..MaxNotes, point \in FailurePoints :
        \E rnd \in [1..f -> Samples] :
          \E p \in {LoadAllBefore([notes |-> <<>>, sf |-> stateFiles, tf |-> textFiles], rnd, f)} :
             /\ LoadAllCreates(p, f)
             /\ \E c \in {CreateNoteFails(p.w, <<>>, LoadFontSize, rnd[f], point)} :
                   /\ allNotes' = c.notes
                   /\ stateFiles' = c.sf
                   /\ textFiles' = c.tf
                   /\ lastOp' = Op("enableFailed", Len(c.notes), 0, 0 \notin DOMAIN stateFiles)
    /\ managerUp' = TRUE
    /\ notesAreVisible' = FALSE
    /\ notesLoaded' = FALSE
    /\ timeout_id' = 0
    /\ pendingTimers' = {}
    /\ notifications' = notifications + 1
    /\ lastLive' = <<>>
    /\ UNCHANGED auxVars
    /\ UNCHANGED orphanTimers

\* The Delete button of note i, confirmed: _deleteNoteObject.
DeleteNoteObject(i) ==
    /\ managerUp
    /\ i \in 1..Len(allNotes)
    /\ Reachable(allNotes[i])
    /\ allNotes' = Splice(allNotes, i)
    /\ textFiles' = DeleteNoteFiles(textFiles, allNotes[i].id)
    /\ stateFiles' = DeleteNoteFiles(stateFiles, allNotes[i].id)
    /\ lastOp' = Op("delete", i, allNotes[i].id, FALSE)
    /\ UNCHANGED auxVars
    /\ UNCHANGED <<managerVars, notifications, timerVars, lastLive>>

\* The Delete button of note i, confirmed, in a program whose
\* _deleteNoteObject goes on to call postDelete(id) with the id of the note it
\* has taken out of the list. The notes postDelete drops from the list are
\* not destroyed.
DeleteNoteObjectPostDelete(i) ==
    /\ managerUp
    /\ i \in 1..Len(allNotes)
    /\ Reachable(allNotes[i])
    /\ \E p \in {PostDelete([notes |-> Splice(allNotes, i),
                              sf |-> DeleteNoteFiles(stateFiles, allNotes[i].id),
                              tf |-> DeleteNoteFiles(textFiles, allNotes[i].id)],
                             allNotes[i].id)} :
          /\ Cardinality(strayNotes \cup p.gone) <= MaxStray
          /\ allNotes' = p.notes
          /\ stateFiles' = p.sf
          /\ textFiles' = p.tf
          /\ strayNotes' = strayNotes \cup p.gone
    /\ lastOp' = Op("postDelete", i, allNotes[i].id, FALSE)
    /\ UNCHANGED <<managerVars, notifications, timerVars, search, lastLive>>

\* The file deletions of _deleteNoteObject that can throw.
DeleteFailures == {"text", "state"}

\* The records _deleteNoteObject leaves when the deletion named by point
\* throws: the text record is deleted first, then the state record.
RecordsAtDeleteFailure(sf, tf, id, point) ==
    [sf |-> sf, tf |-> IF point = "state" THEN DeleteNoteFiles(tf, id) ELSE tf]

\* The Delete button of note i, confirmed, when a file deletion throws: the
\* note is already out of the list, the catch block logs the error and
\* destroy() is not reached, so the note stays on its layer with its handlers
\* connected.
DeleteNoteObjectFails(i, point) ==
    /\ managerUp
    /\ i \in 1..Len(allNotes)
    /\ Reachable(allNotes[i])
    /\ allNotes[i].id \in DOMAIN (IF point = "text" THEN textFiles ELSE stateFiles)
    /\ Cardinality(strayNotes) < MaxStray
    /\ allNotes' = Splice(allNotes, i)
    /\ strayNotes' = strayNotes \cup {allNotes[i]}
    /\ \E d \in {RecordsAtDeleteFailure(stateFiles, textFiles, allNotes[i].id, point)} :
          stateFiles' = d.sf /\ textFiles' = d.tf
    /\ lastOp' = Op("deleteFailed", i, allNotes[i].id, FALSE)
    /\ UNCHANGED <<managerVars, notifications, timerVars, search, lastLive>>

\* _computeRandomPosition, as a constructor of this manager runs it, draws
\* its next sample p.
SearchSample(p) ==
    /\ managerUp
    /\ search.result = <<>>
    /\ search.tries < MaxTries
    /\ search' = SearchStep(search, allNotes, p)
    /\ lastOp' = Op("sample", search.tries + 1, 0, FALSE)
    /\ UNCHANGED <<managerVars, notifications, timerVars, allNotes, stateFiles, textFiles,
                   strayNotes, lastLive>>

\* The run of _computeRandomPosition has returned and its caller goes on.
SearchReturned ==
    /\ search.result # <<>>
    /\ search' = NoSearch
    /\ lastOp' = Op("sampled", search.tries, 0, FALSE)
    /\ UNCHANGED <<managerVars, notifications, timerVars, allNotes, stateFiles, textFiles,
                   strayNotes, lastLive>>

\* The Toggle bold button of a note that is out of the list and was not
\* destroyed: toggleBold saves the state under the note's id.
StrayToggleBold(n) ==
    /\ n \in strayNotes
    /\ Reachable(n)
    /\ \E k \in {ToggleBoldOf([n |-> n, sf |-> stateFiles, tf |-> textFiles])} :
          /\ strayNotes' = (strayNotes \ {n}) \cup {k.n}
          /\ stateFiles' = k.sf
          /\ textFiles' = k.tf
    /\ lastOp' = Op("strayEdit", 0, n.id, FALSE)
    /\ UNCHANGED <<managerVars, notifications, timerVars, allNotes, search, lastLive>>

\* The panel button: _onButtonPressed relayers every note, then creates the
\* first note, hides the notes (scheduling the detach) or shows them. The
\* notes are loaded; the reload it starts with after a load that failed is
\* left out.
ButtonPressed ==
    /\ managerUp
    /\ notesLoaded
    /\ \E notes \in {RelayerAll(allNotes)}, t \in {FreeTimer(pendingTimers)} :
          IF Len(notes) = 0
          THEN \E rs \in Samples :
                  \E c \in {CreateNote([notes |-> notes, sf |-> stateFiles, tf |-> textFiles],
                                         <<>>, LoadFontSize, rs)} :
                     /\ allNotes' = ShowNotes(c.notes)
                     /\ stateFiles' = c.sf
                     /\ textFiles' = c.tf
                     /\ notesAreVisible' = TRUE
                     /\ lastOp' = Op("create", 1, 0, 0 \notin DOMAIN stateFiles)
                     /\ UNCHANGED timerVars
          ELSE IF notesAreVisible
          THEN /\ Cardinality(pendingTimers) + orphanTimers < MaxTimers
               /\ allNotes' = HideNotes(notes)
               /\ notesAreVisible' = FALSE
               /\ timeout_id' = t
               /\ pendingTimers' = pendingTimers \cup {t}
               /\ lastOp' = Op("hide", 0, 0, FALSE)
               /\ UNCHANGED <<stateFiles, textFiles, orphanTimers>>
          ELSE /\ allNotes' = ShowNotes(notes)
               /\ notesAreVisible' = TRUE
               /\ lastOp' = Op("show", 0, 0, FALSE)
               /\ UNCHANGED <<stateFiles, textFiles, timerVars>>
    /\ UNCHANGED auxVars
    /\ UNCHANGED <<managerUp, notesLoaded, notifications, lastLive>>

\* A detach timer of the live manager fires.
TimeoutFired(t) ==
    /\ t \in pendingTimers
    /\ allNotes' = DetachAll(allNotes)
    /\ timeout_id' = 0
    /\ pendingTimers' = pendingTimers \ {t}
    /\ lastOp' = Op("timeout", 0, 0, FALSE)
    /\ UNCHANGED auxVars
    /\ UNCHANGED <<managerVars, notifications, orphanTimers, stateFiles, textFiles, lastLive>>

\* A faulty teardown that leaves the destroyed manager's list as it was: the
\* callback of its timer still reaches notes.
OrphanTimeoutReachesNotes ==
    /\ orphanTimers > 0
    /\ orphanTimers' = orphanTimers - 1
    /\ allNotes' = DetachAll(allNotes)
    /\ lastOp' = Op("timeout", 0, 0, FALSE)
    /\ UNCHANGED auxVars
    /\ UNCHANGED <<managerVars, notifications, timeout_id, pendingTimers, stateFiles,
                   textFiles, lastLive>>

\* A detach timer of a destroyed manager fires: its note list is empty.
OrphanTimeoutFired ==
    /\ orphanTimers > 0
    /\ orphanTimers' = orphanTimers - 1
    /\ lastOp' = Op("timeout", 0, 0, FALSE)
    /\ UNCHANGED auxVars
    /\ UNCHANGED <<managerVars, notifications, allNotes, timeout_id, pendingTimers, stateFiles,
                   textFiles, lastLive>>

\* The user types into the entry of note i.
EditText(i, text) ==
    /\ managerUp
    /\ i \in 1..Len(allNotes)
    /\ Reachable(allNotes[i])
    /\ allNotes[i].entryBoxVisible
    /\ text # allNotes[i].text
    /\ allNotes' = [allNotes EXCEPT ![i].text = text]
    /\ lastOp' = Op("edit", i, allNotes[i].id, FALSE)
    /\ UNCHANGED auxVars
    /\ UNCHANGED <<managerVars, notifications, timerVars, stateFiles, textFiles, lastLive>>

\* The records and note i, as a handler of note i finds them.
Handling(i) == [n |-> allNotes[i], sf |-> stateFiles, tf |-> textFiles]

\* What a handler of note i leaves: note i and the records.
Handled(i, k) ==
    /\ allNotes' = [allNotes EXCEPT ![i] = k.n]
    /\ stateFiles' = k.sf
    /\ textFiles' = k.tf
    /\ lastOp' = Op("edit", i, allNotes[i].id, FALSE)
    /\ UNCHANGED auxVars
    /\ UNCHANGED <<managerVars, notifications, timerVars, lastLive>>

\* The user can act on note i.
CanUse(i) == managerUp /\ i \in 1..Len(allNotes) /\ Reachable(allNotes[i])

\* The Toggle bold button of note i.
ToggleBold(i) ==
    /\ CanUse(i)
    /\ \E k \in {ToggleBoldOf(Handling(i))} : Handled(i, k)

\* A font size item of the options menu of note i.
ChangeFontSize(i, delta) ==
    /\ CanUse(i)
    /\ allNotes[i].fontSize + delta <= MaxFontSize
    /\ \E k \in {ChangeFontSizeOf(Handling(i), delta)} : Handled(i, k)

\* A color item of the options menu of note i.
ApplyColorAndSave(i, rgb) ==
    /\ CanUse(i)
    /\ \E k \in {ApplyColorAndSaveOf(Handling(i), rgb)} : Handled(i, k)

\* A press on the entry of note i: _getKeyFocus.
GetKeyFocus(i) ==
    /\ CanUse(i)
    /\ allNotes[i].entryBoxVisible
    /\ \E k \in {Redraw(Handling(i))} : Handled(i, k)

\* A press on the title of note i with the left (1) or right (3) button.
MovePress(i, button) ==
    /\ CanUse(i)
    /\ \E k \in {OnMovePress(Handling(i), button)} : Handled(i, k)

\* A press on the resize button of note i.
ResizePress(i) ==
    /\ CanUse(i)
    /\ \E k \in {OnResizePress(Handling(i))} : Handled(i, k)

\* The pointer moves over the title of note i during a move drag.
MoveMotion(i, d) ==
    /\ CanUse(i)
    /\ allNotes[i].isMoving
    /\ \E k \in {[Handling(i) EXCEPT !.n = MoveTo(@, d)]} : Handled(i, k)

\* The pointer moves over the resize button of note i during a resize drag.
ResizeMotion(i, d) ==
    /\ CanUse(i)
    /\ allNotes[i].isResizing
    /\ Abs(allNotes[i].width + d[1]) <= MaxWidth
    /\ Abs(allNotes[i].height - d[2]) <= MaxHeight
    /\ \E k \in {[Handling(i) EXCEPT !.n = ResizeTo(@, d)]} : Handled(i, k)

\* The button is released over the title or the resize button of note i.
Release(i) ==
    /\ CanUse(i)
    /\ \E k \in {OnRelease(Handling(i))} : Handled(i, k)

\* What the handlers of note i that save can leave, each with its writes done:
\* toggleBold, changeFontSize, applyColorAndSave, _getKeyFocus, _onMovePress,
\* _onResizePress and _onRelease.
HandlerOutcomes(i) ==
    {ToggleBoldOf(Handling(i)), OnResizePress(Handling(i)), OnRelease(Handling(i))}
    \cup {ChangeFontSizeOf(Handling(i), delta) :
             delta \in {d \in FontDeltas : allNotes[i].fontSize + d <= MaxFontSize}}
    \cup {ApplyColorAndSaveOf(Handling(i), rgb) : rgb \in MenuColors}
    \cup {Redraw(Handling(i)) : e \in {v \in {TRUE} : allNotes[i].entryBoxVisible}}
    \cup {OnMovePress(Handling(i), button) : button \in {1, 3}}

\* The records a write can fail for.
RecordKinds == {"state", "text"}

\* A faulty save whose failure undoes what the handler did to the note.
FailedWriteRollsBack(k, h, kind) ==
    [n |-> h.n,
     sf |-> IF kind = "state" THEN h.sf ELSE k.sf,
     tf |-> IF kind = "text" THEN h.tf ELSE k.tf]

\* A handler that found h and would leave k, when its writes of the state
\* record (_saveState) or of the text record (_saveText) fail: the catch block
\* of the save logs the failure, the record stays as it was and the handler
\* goes on.
FailedWrite(k, h, kind) ==
    [n |-> k.n,
     sf |-> IF kind = "state" THEN h.sf ELSE k.sf,
     tf |-> IF kind = "text" THEN h.tf ELSE k.tf]

\* A handler of note i that saves, run while the data directory takes no
\* write of one kind of record.
HandlerWriteFails(i, kind) ==
    /\ CanUse(i)
    /\ \E k \in HandlerOutcomes(i) :
          \E f \in {FailedWrite(k, Handling(i), kind)} :
             /\ allNotes' = [allNotes EXCEPT ![i] = f.n]
             /\ stateFiles' = f.sf
             /\ textFiles' = f.tf
    /\ lastOp' = Op("writeFailed", i, allNotes[i].id, FALSE)
    /\ UNCHANGED auxVars
    /\ UNCHANGED <<managerVars, notifications, timerVars, lastLive>>

\* Creating, editing and deleting notes across enable/disable.
Next ==
    \/ Enable
    \/ Disable
    \/ \E i \in 1..MaxNotes : NewNote(i)
    \/ \E i \in 1..MaxNotes : DeleteNoteObject(i)
    \/ \E i \in 1..MaxNotes, text \in Texts : EditText(i, text)

Spec == Init /\ [][Next]_vars

\* The panel button and the detach timers as well.
NextVisibility ==
    \/ Next
    \/ ButtonPressed
    \/ \E t \in 1..MaxTimers : TimeoutFired(t)
    \/ OrphanTimeoutFired

SpecVisibility == Init /\ [][NextVisibility]_vars

\* The panel button and the detach timers on lists of one note and more.
NextToggle ==
    \/ Enable
    \/ Disable
    \/ \E i \in 1..MaxNotes : NewNote(i)
    \/ ButtonPressed
    \/ \E t \in 1..MaxTimers : TimeoutFired(t)
    \/ OrphanTimeoutFired

SpecToggle == Init /\ [][NextToggle]_vars

\* The panel button and the detach timers on lists the user can empty.
NextPanel ==
    \/ NextToggle
    \/ \E i \in 1..MaxNotes : DeleteNoteObject(i)

SpecPanel == Init /\ [][NextPanel]_vars

\* One note's color, font, content pane, position and size, across
\* enable/disable.
NextEdit ==
    \/ Enable
    \/ Disable
    \/ \E i \in 1..MaxNotes : ToggleBold(i)
    \/ \E i \in 1..MaxNotes, delta \in FontDeltas : ChangeFontSize(i, delta)
    \/ \E i \in 1..MaxNotes, rgb \in MenuColors : ApplyColorAndSave(i, rgb)
    \/ \E i \in 1..MaxNotes : GetKeyFocus(i)
    \/ \E i \in 1..MaxNotes, button \in {1, 3} : MovePress(i, button)
    \/ \E i \in 1..MaxNotes : ResizePress(i)
    \/ \E i \in 1..MaxNotes, d \in MoveDeltas : MoveMotion(i, d)
    \/ \E i \in 1..MaxNotes, d \in ResizeDeltas : ResizeMotion(i, d)
    \/ \E i \in 1..MaxNotes : Release(i)

SpecEdit == Init /\ [][NextEdit]_vars

\* One note's handlers and text, with saves whose writes fail while the font
\* size is 14 or more.
NextWrite ==
    \/ Enable
    \/ Disable
    \/ \E i \in 1..MaxNotes : ToggleBold(i)
    \/ \E i \in 1..MaxNotes : Release(i)
    \/ \E i \in 1..MaxNotes, text \in Texts : EditText(i, text)
    \/ \E i \in 1..MaxNotes, kind \in RecordKinds :
          /\ CanUse(i) /\ allNotes[i].fontSize >= LoadFontSize - 2
          /\ HandlerWriteFails(i, kind)

SpecWrite == Init /\ [][NextWrite]_vars

\* Creating notes, with constructors that can throw, across enable/disable.
NextFailure ==
    \/ Enable
    \/ EnableFails
    \/ Disable
    \/ \E i \in 1..MaxNotes : NewNote(i)
    \/ \E i \in 1..MaxNotes : NewNoteFails(i)

SpecFailure == Init /\ [][NextFailure]_vars

\* Creating and editing notes, with teardowns in which one note fails.
NextTeardown ==
    \/ Enable
    \/ Disable
    \/ \E j \in 1..MaxNotes, kind \in TeardownFailures : DisableFails(j, kind)
    \/ \E i \in 1..MaxNotes : NewNote(i)
    \/ \E i \in 1..MaxNotes, text \in Texts : EditText(i, text)

SpecTeardown == Init /\ [][NextTeardown]_vars

\* The three ways a note is created: the load, the panel button on an empty
\* list and the New button. Notes are deleted, the first note of the list is
\* recolored and its font size is taken one step down from 16.
NextCreate ==
    \/ Enable
    \/ Disable
    \/ \E i \in 1..MaxNotes : NewNote(i)
    \/ \E i \in 1..MaxNotes : DeleteNoteObject(i)
    \/ (Len(allNotes) = 0 /\ ButtonPressed)
    \/ (Len(allNotes) > 0 /\ allNotes[1].fontSize = LoadFontSize /\ ChangeFontSize(1, -2))
    \/ \E rgb \in MenuColors : ApplyColorAndSave(1, rgb)

SpecCreate == Init /\ [][NextCreate]_vars

\* Creating, editing and deleting notes, where every delete calls postDelete.
NextPostDelete ==
    \/ Enable
    \/ Disable
    \/ \E i \in 1..MaxNotes : NewNote(i)
    \/ \E i \in 1..MaxNotes : DeleteNoteObjectPostDelete(i)
    \/ \E i \in 1..MaxNotes, text \in Texts : EditText(i, text)

SpecPostDelete == Init /\ [][NextPostDelete]_vars

\* Creating and deleting notes, with deletions whose file removal throws.
NextDelete ==
    \/ Enable
    \/ Disable
    \/ \E i \in 1..MaxNotes : NewNote(i)
    \/ \E i \in 1..MaxNotes : DeleteNoteObject(i)
    \/ \E i \in 1..MaxNotes, point \in DeleteFailures : DeleteNoteObjectFails(i, point)
    \/ \E n \in strayNotes : StrayToggleBold(n)

SpecDelete == Init /\ [][NextDelete]_vars

\* Runs of the free-position search on the lists that creating notes gives;
\* a run is not interleaved with another handler.
NextSearch ==
    \/ (search = NoSearch /\ Enable)
    \/ (search = NoSearch /\ Disable)
    \/ \E i \in 1..MaxNotes : (search = NoSearch /\ NewNote(i))
    \/ \E p \in RandomPositions : SearchSample(p)
    \/ SearchReturned

SpecSearch == Init /\ [][NextSearch]_vars

\* Coloring the notes with any triple, across enable/disable.
NextColor ==
    \/ Enable
    \/ Disable
    \/ \E i \in 1..MaxNotes, rgb \in ColorInputs : ApplyColorAndSave(i, rgb)

SpecColor == Init /\ [][NextColor]_vars

\* The program starts on a data directory that holds a state record for id 0
\* which it did not write, with or without a text record.
InitLoad ==
    /\ managerUp = FALSE
    /\ allNotes = <<>>
    /\ notesAreVisible = FALSE
    /\ notesLoaded = FALSE
    /\ timeout_id = 0
    /\ pendingTimers = {}
    /\ orphanTimers = 0
    /\ stateFiles \in {(0 :> d) : d \in ForeignRecords}
    /\ textFiles \in {NoRecords, (0 :> "a")}
    /\ notifications = 0
    /\ strayNotes = {}
    /\ search = NoSearch
    /\ lastLive = <<>>
    /\ lastOp = Op("init", 0, 0, FALSE)

\* Loading foreign records, and resizing the loaded note.
NextLoad ==
    \/ Enable
    \/ Disable
    \/ \E i \in 1..MaxNotes : ResizePress(i)
    \/ \E i \in 1..MaxNotes, d \in ResizeDeltas : ResizeMotion(i, d)
    \/ \E i \in 1..MaxNotes : Release(i)

SpecLoad == InitLoad /\ [][NextLoad]_vars

\* ------------------------------------------------------------------ claims
\* A list whose note at index i (counted from 1) has id i - 1.
Dense(notes) == \A i \in 1..Len(notes) : notes[i].id = i - 1
\* The ids that have a state or a text record.
RecordIds == DOMAIN stateFiles \cup DOMAIN textFiles
\* How many elements of seq equal e.
Count(seq, e) == Cardinality({i \in 1..Len(seq) : seq[i] = e})
\* The last step was the confirmed delete of a note.
Deleted == lastOp.op = "delete"

\* C1: after every create and every confirmed delete the ids of the live
\* notes are exactly 0..N-1 and the note at list index i has id i.
C1_IdsDense == Dense(allNotes)

\* C2: no two live notes have the same id, so no two of them share the
\* records of one id.
C2_IdsUnique ==
    \A i, j \in 1..Len(allNotes) : i # j => allNotes[i].id # allNotes[j].id

\* C3: enabling after a disable loads as many notes as were live at the
\* disable, and the bodies loaded are the bodies that were live, each once
\* (stated for at least one live note: with none, loading creates its
\* default note).
C3_NotesSurviveRestart ==
    [][(lastLive # <<>> /\ Len(lastLive[1]) >= 1 /\ managerUp') =>
          /\ Len(allNotes') = Len(lastLive[1])
          /\ \A t \in Texts :
                Count([i \in 1..Len(allNotes') |-> allNotes'[i].text], t)
                    = Count(lastLive[1], t)]_vars

\* C4: every live note has a state record and a text record under its id.
C4_RecordsOfLiveNotes ==
    \A i \in 1..Len(allNotes) :
        allNotes[i].id \in DOMAIN stateFiles /\ allNotes[i].id \in DOMAIN textFiles

\* C5: deleting the note with id k < N-1 from N notes with dense ids leaves
\* N-1 notes, moves the note that had id N-1 to id k and list index k with
\* its state and text saved under k, keeps every other note, and removes the
\* records of id N-1.
C5_SwapWithLast ==
    [][(Deleted' /\ Dense(allNotes) /\ lastOp'.idx < Len(allNotes)) =>
          LET N == Len(allNotes)
              k == lastOp'.id
          IN /\ Len(allNotes') = N - 1
             /\ allNotes'[k + 1] = [allNotes[N] EXCEPT !.id = k]
             /\ \A i \in 1..(N - 1) : i # k + 1 => allNotes'[i] = allNotes[i]
             /\ k \in DOMAIN stateFiles' /\ stateFiles'[k] = StateData(allNotes[N])
             /\ k \in DOMAIN textFiles' /\ textFiles'[k] = allNotes[N].text
             /\ (N - 1) \notin RecordIds']_vars

\* C6: after a delete no state or text record is left for an id >= N, the
\* number of live notes.
C6_NoOrphanRecords == Deleted => \A id \in RecordIds : id < Len(allNotes)

\* C7: deleting the note at the last list index leaves every other note, its
\* id and its list position as they were and writes no record: the records of
\* the deleted note's id are removed and nothing else changes on disk.
C7_DeleteLastIsLocal ==
    [][(Deleted' /\ lastOp'.idx = Len(allNotes)) =>
          LET N == Len(allNotes)
              id == allNotes[N].id
          IN /\ Len(allNotes') = N - 1
             /\ \A i \in 1..(N - 1) : allNotes'[i] = allNotes[i]
             /\ DOMAIN stateFiles' = DOMAIN stateFiles \ {id}
             /\ DOMAIN textFiles' = DOMAIN textFiles \ {id}
             /\ \A j \in DOMAIN stateFiles' : stateFiles'[j] = stateFiles[j]
             /\ \A j \in DOMAIN textFiles' : textFiles'[j] = textFiles[j]]_vars

\* C7 witness: the last of several notes was deleted while it had records.
C7_Witness ==
    /\ Deleted /\ lastOp.idx = Len(allNotes) + 1 /\ Len(allNotes) >= 2
    /\ lastOp.id \notin RecordIds

\* The length of the run of ids from 0 that have a state record.
StateRun(sf) ==
    CHOOSE k \in 0..Cardinality(DOMAIN sf) :
        (\A j \in 0..(k - 1) : j \in DOMAIN sf) /\ k \notin DOMAIN sf

\* C8: loading creates the notes 0..k-1 for the k ids from 0 on that have a
\* state record, whatever records lie beyond the first gap, and one note
\* with id 0 when k = 0.
C8_LoadAllPrefix ==
    [][(~managerUp /\ managerUp') =>
          /\ Len(allNotes') = Max(StateRun(stateFiles), 1)
          /\ Dense(allNotes')]_vars

\* C8 witness: notes were loaded up to a gap with a record beyond it.
C8_Witness ==
    /\ lastOp.op = "enable" /\ ~lastOp.fresh
    /\ Len(allNotes) \notin DOMAIN stateFiles
    /\ \E id \in DOMAIN stateFiles : id > Len(allNotes)

\* The position a load must give for the record rec: the saved one, clamped
\* to the monitor for the saved size.
ClampedX(rec) == Max(0, Min(rec.x.v, Px(MonitorWidth - rec.width.v)))
ClampedY(rec) == Max(0, Min(rec.y.v, Px(MonitorHeight - rec.height.v)))

\* The note constructed for id from the records sf, with the arguments and
\* position samples a.
Reloaded(id, a, sf) == NoteBox(id, a[1], a[2], a[3][1], a[3][2], sf, textFiles).n

\* The arguments and samples a constructor call can get.
ConstructorArgs == {<<>>, ColorString(90, 90, 255)} \X {LoadFontSize, DefaultFontSize} \X Samples

\* n was saved as rec and m was loaded from rec: m has the color, font size,
\* bold flag, content flag and size of n and the clamped saved position.
RoundTrip(n, rec, m) ==
    /\ m.customColor = n.customColor
    /\ m.fontSize = n.fontSize
    /\ m.isBold = n.isBold
    /\ m.entry_is_visible = n.entry_is_visible
    /\ m.width = n.width
    /\ m.height = n.height
    /\ m.x = ClampedX(rec)
    /\ m.y = ClampedY(rec)

\* C9: for every state of a live note, saving it under its id and loading a
\* note from that id gives the same color, font size, bold flag, content
\* flag, width and height, and the saved position clamped to the monitor.
C9_SaveLoadRoundTrip ==
    \A i \in 1..Len(allNotes), a \in ConstructorArgs :
        RoundTrip(allNotes[i],
                  SaveState(allNotes[i], stateFiles)[allNotes[i].id],
                  Reloaded(allNotes[i].id, a, SaveState(allNotes[i], stateFiles)))

\* C9 witness: a live note that is bold, recolored, resized, moved to the
\* corner, with another font size and its content pane hidden.
C9_Witness ==
    \E i \in 1..Len(allNotes) :
        /\ allNotes[i].isBold /\ ~allNotes[i].entry_is_visible
        /\ allNotes[i].customColor # DefaultColor
        /\ allNotes[i].fontSize # LoadFontSize
        /\ allNotes[i].width # DefaultWidth /\ allNotes[i].height # DefaultHeight
        /\ allNotes[i].x = 0 /\ allNotes[i].y = 0

\* The last step constructed the note at list index lastOp.idx for an id that
\* had no state record.
ConstructedFresh == lastOp.op \in {"create", "enable"} /\ lastOp.fresh

\* The record rec holds the state of note n (its position floored).
RecordOf(n, rec) ==
    /\ rec.x = Num(Floor(n.x)) /\ rec.y = Num(Floor(n.y))
    /\ rec.width = Num(n.width) /\ rec.height = Num(n.height)
    /\ rec.color = n.customColor /\ rec.fontSize = Num(n.fontSize)
    /\ rec.entryVisible = n.entry_is_visible /\ rec.isBold = n.isBold

\* C10: a note constructed for an id without a state record leaves a state
\* record equal to its in-memory state at the end of the construction, and a
\* note constructed again from that record has the same values.
C10_DefaultStatePersisted ==
    ConstructedFresh =>
        /\ allNotes[lastOp.idx].id \in DOMAIN stateFiles
        /\ RecordOf(allNotes[lastOp.idx], stateFiles[allNotes[lastOp.idx].id])
        /\ \A a \in ConstructorArgs :
              RecordOf(Reloaded(allNotes[lastOp.idx].id, a, stateFiles),
                       stateFiles[allNotes[lastOp.idx].id])

\* The position <<x, y>> is inside the monitor for a note of the size w x h.
InBounds(x, y, w, h) ==
    /\ 0 <= x /\ x <= Max(0, Px(MonitorWidth - w))
    /\ 0 <= y /\ y <= Max(0, Px(MonitorHeight - h))

\* The state record rec holds a position inside the monitor for its size.
RecordInBounds(rec) ==
    /\ rec.x.t = "num" /\ rec.y.t = "num" /\ rec.width.t = "num" /\ rec.height.t = "num"
    /\ InBounds(rec.x.v, rec.y.v, rec.width.v, rec.height.v)

\* C11: every state record the program has written, the one written while a
\* note is constructed included, and the position of every live note are
\* inside the monitor bounds for the note's size.
C11_PositionsInBounds ==
    /\ \A id \in DOMAIN stateFiles : RecordInBounds(stateFiles[id])
    /\ \A i \in 1..Len(allNotes) :
          InBounds(allNotes[i].x, allNotes[i].y, allNotes[i].width, allNotes[i].height)

\* The program has written every state record of the directory: it has loaded
\* the notes at least once, and every construction saves the note's state.
ProgramWroteRecords == lastOp.op # "init"

\* C12: every live note, and every state record the program has written, has
\* width >= 200 and height >= 75, whatever sizes the records it loaded held
\* and however the note was resized.
C12_MinimumSize ==
    /\ \A i \in 1..Len(allNotes) :
          allNotes[i].width >= MIN_WIDTH /\ allNotes[i].height >= MIN_HEIGHT
    /\ ProgramWroteRecords =>
          \A id \in DOMAIN stateFiles :
              /\ IsRecord(stateFiles[id])
              /\ stateFiles[id].width.t = "num" /\ stateFiles[id].width.v >= MIN_WIDTH
              /\ stateFiles[id].height.t = "num" /\ stateFiles[id].height.v >= MIN_HEIGHT

\* C12 witness: a note just loaded at exactly the minimum size, which only a
\* record with a smaller size gives.
C12_Witness ==
    /\ lastOp.op = "enable" /\ Len(allNotes) = 1
    /\ allNotes[1].width = MIN_WIDTH /\ allNotes[1].height = MIN_HEIGHT
    /\ stateFiles[0].width = Num(MIN_WIDTH)

\* The font size the claim gives for a change by delta at the size given.
FontSizeAfter(size, delta) == IF size + delta > 1 THEN size + delta ELSE size

\* C13: a font size item changes the size by its delta exactly when the
\* result is greater than 1 and leaves it unchanged otherwise, and no note
\* ever has a font size below 2.
C13_FontSizeFloor ==
    /\ [](\A i \in 1..Len(allNotes) : allNotes[i].fontSize >= 2)
    /\ [][\A i \in 1..MaxNotes, delta \in FontDeltas :
              ChangeFontSize(i, delta) =>
                  allNotes'[i].fontSize = FontSizeAfter(allNotes[i].fontSize, delta)]_vars

\* C13 witness: a note whose font size was brought down to 2, where the next
\* step down is rejected.
C13_Witness ==
    /\ lastOp.op = "edit"
    /\ \E i \in 1..Len(allNotes) :
          allNotes[i].fontSize = 2 /\ stateFiles[allNotes[i].id].fontSize = Num(2)

\* A color component clamped to [0, 255].
Clamp255(v) == IF v < 0 THEN 0 ELSE IF v > 255 THEN 255 ELSE v

\* The text color the claim gives for the stored components r, g, b.
TextColor(r, g, b) == IF r + g + b > 250 THEN "#000000" ELSE "#ffffff"

\* The note n holds the triple rgb as the claim says: clamped per component,
\* with the text color of the clamped sum.
HoldsColor(n, rgb) ==
    /\ n.customColor = ColorString(Clamp255(rgb[1]), Clamp255(rgb[2]), Clamp255(rgb[3]))
    /\ n.fontColor = TextColor(Clamp255(rgb[1]), Clamp255(rgb[2]), Clamp255(rgb[3]))

\* C14: applying an integer triple (r, g, b) as the color of a note stores each
\* component clamped to [0, 255], in the note and in its state record, and
\* makes the text black exactly when the clamped components sum to more than
\* 250, white otherwise.
C14_ColorClamped ==
    [][\A i \in 1..MaxNotes, rgb \in ColorInputs :
          ApplyColorAndSave(i, rgb) =>
              /\ HoldsColor(allNotes'[i], rgb)
              /\ stateFiles'[allNotes[i].id].color = allNotes'[i].customColor]_vars

\* C14 witness: a note colored (255,255,255) with black text, as (300,300,300)
\* leaves it, after a color was applied.
C14_Witness ==
    /\ lastOp.op = "edit"
    /\ \E i \in 1..Len(allNotes) :
          /\ allNotes[i].customColor = ColorString(255, 255, 255)
          /\ allNotes[i].fontColor = "#000000"

\* C15: when the constructor of a note throws inside createNote, one
\* notification is shown and the list of live notes is left as it was; the
\* error reaches the caller, so a load in which it happens is not completed
\* and its list holds the notes created before the failure, ids 0, 1, ...
C15_CreateFailureKeepsList ==
    [][/\ lastOp'.op = "createFailed" =>
              allNotes' = allNotes /\ notifications' = notifications + 1
       /\ lastOp'.op = "enableFailed" =>
              /\ notifications' = notifications + 1
              /\ ~notesLoaded' /\ ~notesAreVisible'
              /\ Len(allNotes') < Max(StateRun(stateFiles), 1)
              /\ Dense(allNotes')]_vars

\* C15 witness: a creation has just failed from the button of a note of a
\* list of two, and the notification was shown.
C15_Witness ==
    /\ lastOp.op = "createFailed"
    /\ notifications >= 1
    /\ Len(allNotes) = 2

\* A state record that parses and that a load takes as it is: every number is
\* a number and the size is not below the minimum.
ValidRecord(d) ==
    /\ IsRecord(d)
    /\ d.x.t = "num" /\ d.y.t = "num" /\ d.fontSize.t = "num"
    /\ d.width.t = "num" /\ d.width.v >= MIN_WIDTH
    /\ d.height.t = "num" /\ d.height.v >= MIN_HEIGHT
    /\ Len(d.color) = 3 /\ \A c \in 1..3 : d.color[c].t = "num"

\* The note n is in the default state: 250x180, content visible, not bold, at
\* a position inside the bounds.
InDefaultState(n) ==
    /\ n.width = 250 /\ n.height = 180
    /\ n.entry_is_visible /\ ~n.isBold
    /\ InBounds(n.x, n.y, n.width, n.height)

\* C16: a load that finds a state record it cannot read or parse completes:
\* the note is constructed in the default state, and a valid state record of
\* its id is on disk afterwards.
C16_MalformedStateFallsBack ==
    [][(~managerUp /\ 0 \in DOMAIN stateFiles /\ ~IsRecord(stateFiles[0]) /\ managerUp') =>
          /\ notesLoaded' /\ Len(allNotes') = 1 /\ allNotes'[1].id = 0
          /\ InDefaultState(allNotes'[1])
          /\ 0 \in DOMAIN stateFiles' /\ ValidRecord(stateFiles'[0])
          /\ notifications' = notifications]_vars

\* C16 witness: a note just loaded with the default color, which no parsed
\* record of the directory holds: its record could not be read or parsed.
C16_Witness ==
    /\ lastOp.op = "enable" /\ lastLive = <<>>
    /\ Len(allNotes) = 1 /\ allNotes[1].customColor = DefaultColor
    /\ ValidRecord(stateFiles[0])

\* C17: a teardown in which the final save or the destroy of one note fails
\* is completed all the same: the text of every other live note is on disk
\* afterwards, the list is empty, the manager is gone and no timer of it is
\* left registered under its id.
C17_TeardownGoesOn ==
    [][lastOp'.op = "disableFailed" =>
          /\ \A i \in 1..Len(allNotes) :
                i # lastOp'.idx =>
                    /\ allNotes[i].id \in DOMAIN textFiles'
                    /\ textFiles'[allNotes[i].id] = allNotes[i].text
          /\ allNotes' = <<>>
          /\ ~managerUp' /\ timeout_id' = 0]_vars

\* C17 witness: a teardown of three notes in which the first note failed and
\* the last note's text, typed since the last save, is on disk.
C17_Witness ==
    /\ lastOp.op = "disableFailed" /\ lastOp.idx = 1
    /\ Len(lastLive[1]) = 3
    /\ lastLive[1][3] = "a" /\ textFiles[2] = "a"

C19_StaleDetach ==
    /\ [][lastOp'.op = "show" => timerVars' = timerVars]_vars
    /\ [][(lastOp'.op = "timeout" /\ pendingTimers' # pendingTimers) =>
             /\ Len(allNotes') = Len(allNotes)
             /\ notesAreVisible' = notesAreVisible
             /\ \A i \in 1..Len(allNotes') :
                   /\ ~allNotes'[i].attached
                   /\ allNotes'[i].shown = allNotes[i].shown]_vars

\* C19 witness: the timer of a hide has fired after the show that followed
\* it: the flag is true and every note, though shown, is off its layer.
C19_Witness ==
    /\ lastOp.op = "timeout" /\ notesAreVisible
    /\ Len(allNotes) = 2
    /\ \A i \in 1..Len(allNotes) : allNotes[i].shown /\ ~allNotes[i].attached

\* C20: at most one detach timer is pending, _timeout_id names it, and no
\* detach timer of a destroyed manager is pending.
C20_OneTimerNamed ==
    /\ Cardinality(pendingTimers) <= 1
    /\ pendingTimers # {} => pendingTimers = {timeout_id}
    /\ orphanTimers = 0

\* Note n is idle: no move or resize drag of it is in progress.
Idle(n) == ~n.isMoving /\ ~n.isResizing

\* C23: whenever a live note is idle, the state record under its id holds its
\* in-memory state: the floored position, width, height, color, font size,
\* bold flag and content flag.
C23_IdleRecordMatches ==
    \A i \in 1..Len(allNotes) :
        Idle(allNotes[i]) =>
            /\ allNotes[i].id \in DOMAIN stateFiles
            /\ RecordOf(allNotes[i], stateFiles[allNotes[i].id])

\* The last step constructed the note at list index lastOp.idx for an id that
\* had no state record, and that note has the size 250x180, its content
\* visible and is not bold.
FreshWithDefaults ==
    /\ ConstructedFresh
    /\ allNotes[lastOp.idx].width = DefaultWidth
    /\ allNotes[lastOp.idx].height = DefaultHeight
    /\ allNotes[lastOp.idx].entry_is_visible /\ allNotes[lastOp.idx].entryBoxVisible
    /\ ~allNotes[lastOp.idx].isBold

\* C24 as stated: a note constructed for an id without a state record has
\* the size 250x180, the font size 12, the default color, its content visible
\* and is not bold, whichever path created it.
C24_FreshNoteAllDefaults ==
    ConstructedFresh =>
        /\ FreshWithDefaults
        /\ allNotes[lastOp.idx].fontSize = DefaultFontSize
        /\ allNotes[lastOp.idx].customColor = DefaultColor

\* C24, corrected: a note constructed for an id without a state record has
\* the size 250x180, its content visible and is not bold; its font size and
\* color are the ones createNote was called with: 16 and the default color
\* from the load and from the panel button, the font size and color of the
\* note whose New button was pressed otherwise.
C24_FreshNoteTakesCallerStyle ==
    /\ [](ConstructedFresh => FreshWithDefaults)
    /\ [][(lastOp'.op \in {"create", "enable"} /\ lastOp'.fresh) =>
             IF lastOp'.op = "enable" \/ Len(allNotes) = 0
             THEN /\ allNotes'[lastOp'.idx].fontSize = LoadFontSize
                  /\ allNotes'[lastOp'.idx].customColor = DefaultColor
             ELSE \E j \in 1..Len(allNotes) :
                     /\ allNotes'[lastOp'.idx].fontSize = allNotes[j].fontSize
                     /\ allNotes'[lastOp'.idx].customColor = allNotes[j].customColor]_vars

\* C24 witness: the New button of a recolored note with a font size of 14
\* has made a note for an id without a state record.
C24_Witness ==
    /\ FreshWithDefaults /\ lastOp.op = "create" /\ Len(allNotes) > 1
    /\ allNotes[lastOp.idx].fontSize = 14
    /\ allNotes[lastOp.idx].customColor = ColorString(90, 90, 255)

\* C24 witness of the panel button: the button has made the first note of an
\* empty list for an id without a state record, with the font size 16.
C24_WitnessButton ==
    /\ FreshWithDefaults /\ lastOp.op = "create" /\ Len(allNotes) = 1
    /\ allNotes[1].fontSize = LoadFontSize /\ allNotes[1].customColor = DefaultColor

\* C27: in every reachable state the content flag of a live note
\* (entry_is_visible) equals the visibility of its content pane.
C27_ContentFlagMatchesPane ==
    \A i \in 1..Len(allNotes) :
        allNotes[i].entry_is_visible = allNotes[i].entryBoxVisible

C29_WriteFailureOnlyLogged ==
    [][lastOp'.op = "writeFailed" =>
          /\ Len(allNotes') = Len(allNotes)
          /\ \A j \in 1..Len(allNotes) : j # lastOp'.idx => allNotes'[j] = allNotes[j]
          /\ allNotes'[lastOp'.idx].id = allNotes[lastOp'.idx].id
          /\ \E k \in HandlerOutcomes(lastOp'.idx) :
                /\ allNotes'[lastOp'.idx] = k.n
                /\ \/ stateFiles' = stateFiles /\ textFiles' = k.tf
                   \/ textFiles' = textFiles /\ stateFiles' = k.sf
          /\ UNCHANGED <<managerVars, notifications, timerVars>>]_vars

\* C29 witness: toggleBold ran while the state record could not be written:
\* the note is bold and its record is not.
C29_Witness ==
    /\ lastOp.op = "writeFailed" /\ Len(allNotes) = 1
    /\ allNotes[1].isBold /\ ~stateFiles[allNotes[1].id].isBold

\* C29 witness for the text record: a press ran while the text record could
\* not be written: the drag has begun and the typed text is not on disk.
C29_WitnessText ==
    /\ lastOp.op = "writeFailed" /\ Len(allNotes) = 1
    /\ allNotes[1].isMoving
    /\ allNotes[1].text = "a" /\ textFiles[allNotes[1].id] = ""

\* C21: no handler runs for a note that is out of the manager's list and not
\* destroyed: the delete sequence cuts the note's handlers off before it takes
\* the note out of the list.
C21_NoHandlerOutsideList ==
    /\ strayNotes = {}
    /\ lastOp.op # "strayEdit"

\* The ids of the notes in the list notes.
IdsOf(notes) == {notes[i].id : i \in 1..Len(notes)}

C26_PostDeleteKeepsNotes ==
    [][lastOp'.op = "postDelete" =>
          /\ Len(allNotes') = Len(allNotes) - 1
          /\ strayNotes' = strayNotes
          /\ \A j \in 1..Len(allNotes) :
                j # lastOp'.idx =>
                    \E m \in 1..Len(allNotes') :
                        /\ allNotes'[m] = [allNotes[j] EXCEPT !.id = m - 1]
                        /\ (m - 1) \in DOMAIN stateFiles'
                        /\ (m - 1) \in DOMAIN textFiles'
                        /\ textFiles'[m - 1] = allNotes[j].text
          /\ Dense(allNotes')]_vars

\* C30: the callback of a detach timer works on the notes that are in its
\* manager's list when it fires, and on nothing else: a timer of the live
\* manager detaches exactly the notes of the list, which all stay in the
\* list; a timer of a destroyed manager, whose notes were destroyed, touches
\* no note.
C30_CallbackOnLiveNotesOnly ==
    [][lastOp'.op = "timeout" =>
          /\ strayNotes' = strayNotes
          /\ IF pendingTimers' # pendingTimers
             THEN /\ managerUp
                  /\ Len(allNotes') = Len(allNotes)
                  /\ \A i \in 1..Len(allNotes) :
                        allNotes'[i] = [allNotes[i] EXCEPT !.attached = FALSE]
             ELSE /\ orphanTimers' = orphanTimers - 1
                  /\ allNotes' = allNotes]_vars

\* C30 witness: a timer has fired on a list from which a note was deleted
\* (the ids 0 and 2 are left): both notes are off their layer.
C30_Witness ==
    /\ lastOp.op = "timeout"
    /\ Len(allNotes) = 2 /\ IdsOf(allNotes) = {0, 2}
    /\ \A i \in 1..Len(allNotes) : ~allNotes[i].attached

\* C30 witness of the teardown: a timer of a destroyed manager has fired
\* while the notes of the next manager are on their layer.
C30_WitnessOrphan ==
    /\ lastOp.op = "timeout" /\ managerUp /\ pendingTimers = {}
    /\ Len(allNotes) >= 1
    /\ \A i \in 1..Len(allNotes) : allNotes[i].attached /\ allNotes[i].shown

\* The candidate p qualifies: no note of the list has |note.x - x| < 230 and
\* |note.y - y| < 100.
Qualifies(p) ==
    \A i \in 1..Len(allNotes) :
        ~(Abs(allNotes[i].x - p[1]) < Px(230) /\ Abs(allNotes[i].y - p[2]) < Px(100))

\* C25: the free-position search draws at most 15 samples and has returned
\* when it has drawn 15; it returns the first sample that qualifies, and the
\* 15th sample when none of the 15 qualifies.
C25_SearchBounded ==
    /\ search.tries <= 15
    /\ search.tries = 15 => search.result # <<>>
    /\ \A c \in search.rejected : ~Qualifies(c)
    /\ search.result = <<>> =>
          search.tries = 0 \/ search.last \in search.rejected
    /\ search.result # <<>> =>
          /\ search.result = search.last
          /\ \/ Qualifies(search.result) /\ search.result \notin search.rejected
             \/ search.tries = 15 /\ search.result \in search.rejected

\* C25 witness: none of 15 samples qualified and the 15th was returned.
C25_Witness ==
    /\ search.tries = 15 /\ search.result # <<>>
    /\ ~Qualifies(search.result)
    /\ Cardinality(search.rejected) = 2

\* C25 witness of the other end: the search returned a sample that qualifies
\* after it had turned one down.
C25_WitnessFirst ==
    /\ search.result # <<>> /\ Qualifies(search.result)
    /\ search.rejected # {} /\ search.tries < 15
====
